---- MODULE Spec2Model ----
(***************************************************************************)
(* OpenDalFileSystem (clients/filesystem-fuse/src/open_dal_filesystem.rs): *)
(* the adapter that exposes an OpenDAL operator (a flat key/value object   *)
(* store) as a path file system.                                           *)
(*                                                                         *)
(* Paths and storage keys are sequences of one-character strings, so that  *)
(* build_dir_path and the ends_with('/') test are computed, not assumed.   *)
(* The storage operator is the environment: `store` holds the objects of   *)
(* the bucket, and every call on it answers from `store` unless the fault  *)
(* plan of the operation makes that call fail with a chosen ErrorKind.     *)
(* The caller owns at most one OpenedFile at a time and calls one          *)
(* operation at a time.                                                    *)
(* Timestamps (ctime, atime, mtime) come from the wall clock and are not   *)
(* part of the model.                                                      *)
(***************************************************************************)
EXTENDS Integers, Sequences, FiniteSets, TLC

VARIABLES
    store,   \* the backend's objects: storage key -> metadata (or NoObject)
    opened,  \* the OpenedFile the caller currently owns, with its streams
    last     \* the operation that completed last: inputs, backend calls, result

vars == <<store, opened, last>>

----------------------------------------------------------------------------
(* Bounds of the model *)

\* longest object content and writer stream, in bytes
MaxLen == 2

----------------------------------------------------------------------------
(* Paths and storage keys *)

Root     == <<"/">>
PathA    == <<"/", "a">>
PathASep == <<"/", "a", "/">>
PathAB   == <<"/", "a", "/", "b">>

\* the paths the kernel layer passes in
Paths == {Root, PathA, PathASep, PathAB}

ends_with_sep(s) == Len(s) > 0 /\ s[Len(s)] = "/"

\* build_dir_path that forgets the separator
build_dir_path_no_sep(path) == path

build_dir_path(path) ==
    IF ~ends_with_sep(path) THEN Append(path, "/") ELSE path

\* the keys an operation can address: file key and directory key of each path
\* (the root is no object of the bucket)
Keys == (Paths \cup {build_dir_path(p) : p \in Paths}) \ {Root}

IsPrefix(d, k) == Len(d) <= Len(k) /\ SubSeq(k, 1, Len(d)) = d

----------------------------------------------------------------------------
(* Backend vocabulary: opendal::ErrorKind, opendal::EntryMode, Metadata *)

TableKinds == {"Unsupported", "IsADirectory", "NotFound", "PermissionDenied",
               "AlreadyExists", "NotADirectory", "RateLimited"}
OtherKinds == {"Unexpected", "ConfigInvalid"}
ErrorKinds == TableKinds \cup OtherKinds

NoObject == [mode |-> "NONE", content_length |-> 0]
DirMeta  == [mode |-> "DIR",  content_length |-> 0]
FileMeta(n) == [mode |-> "FILE", content_length |-> n]

Ok(meta) == [ok |-> TRUE,  kind |-> "Ok", meta |-> meta]
Err(k)   == [ok |-> FALSE, kind |-> k,    meta |-> NoObject]

HasObject(s, key) == key \in DOMAIN s /\ s[key].mode # "NONE"

\* Operator::stat: the root is always a directory; a key ending in the
\* separator is a directory if the marker object or any object below it
\* exists; any other key is found only if that very object exists.
op_stat(s, key) ==
    IF key = Root THEN Ok(DirMeta)
    ELSE IF ends_with_sep(key)
    THEN IF \E k \in DOMAIN s : IsPrefix(key, k) /\ HasObject(s, k)
         THEN Ok(DirMeta) ELSE Err("NotFound")
    ELSE IF HasObject(s, key) THEN Ok(s[key]) ELSE Err("NotFound")

\* Operator::reader_with / writer_with: a stream is opened lazily, without a
\* lookup; a key ending in the separator is rejected as a directory.
op_reader_with(key) ==
    IF ends_with_sep(key) THEN Err("IsADirectory") ELSE Ok(NoObject)
op_writer_with(key) ==
    IF ends_with_sep(key) THEN Err("IsADirectory") ELSE Ok(NoObject)

\* Writer::close persists the bytes of the stream as the object at `key`
put_object(s, key, n) ==
    IF key \in DOMAIN s THEN [s EXCEPT ![key] = FileMeta(n)] ELSE s

\* Operator::create_dir stores the directory marker object
put_dir(s, key) ==
    IF key \in DOMAIN s THEN [s EXCEPT ![key] = DirMeta] ELSE s

\* Operator::remove deletes exactly the keys it is given; a missing key is
\* no error
delete_object(s, key) ==
    IF key \in DOMAIN s THEN [s EXCEPT ![key] = NoObject] ELSE s

\* Operator::list: the immediate children of a directory key, in key order
\* (shorter keys first); a child directory is named with a trailing separator
ChildName(d, k) ==
    LET rest == SubSeq(k, Len(d) + 1, Len(k))
        cut  == IF \E i \in 1..Len(rest) : rest[i] = "/"
                THEN CHOOSE i \in 1..Len(rest) :
                        rest[i] = "/" /\ \A j \in 1..(i-1) : rest[j] # "/"
                ELSE Len(rest)
    IN SubSeq(rest, 1, cut)

ChildNames(s, d) ==
    {ChildName(d, k) : k \in {x \in DOMAIN s :
                                 IsPrefix(d, x) /\ x # d /\ HasObject(s, x)}}

RECURSIVE SeqOf(_)
SeqOf(S) ==
    IF S = {} THEN <<>>
    ELSE LET x == CHOOSE x \in S : \A y \in S : Len(x) <= Len(y)
         IN <<x>> \o SeqOf(S \ {x})

EntryMeta(s, d, name) ==
    IF ends_with_sep(name) THEN DirMeta ELSE s[d \o name]

op_list(s, d) ==
    LET names == SeqOf(ChildNames(s, d))
    IN Ok([i \in 1..Len(names) |->
              [name |-> names[i], metadata |-> EntryMeta(s, d, names[i])]])

\* Reader::read(offset..end): the bytes of the object in the range, fewer at
\* the end of the object; a missing object is NotFound
op_read(s, key, offset, end) ==
    IF ~HasObject(s, key) THEN Err("NotFound")
    ELSE LET n  == s[key].content_length
             lo == IF offset < n THEN offset ELSE n
             hi == IF end < n THEN end ELSE n
         IN Ok(FileMeta(hi - lo))

----------------------------------------------------------------------------
(* Injected backend failures: the call number `at` of an operation fails    *)
(* with `kind`; at = 0 injects nothing.                                     *)

NoFault == [at |-> 0, kind |-> "NotFound"]

\* the plans for an operation that makes at most n backend calls
Plans(n) == {NoFault} \cup [at : 1..n, kind : ErrorKinds]

Faulty(plan, i, natural) == IF plan.at = i THEN Err(plan.kind) ELSE natural

\* one backend call as the operation saw it: what was called, and the answer
Call(name, key, r) ==
    [name |-> name, key |-> key, ok |-> r.ok, kind |-> r.kind, meta |-> r.meta]

----------------------------------------------------------------------------
(* crate::filesystem::FileStat, crate::opened_file::{OpenedFile, OpenFileFlags} *)

Intents == {"read", "write", "create", "append", "truncate"}

is_read(flags)     == "read" \in flags
is_write(flags)    == "write" \in flags
is_create(flags)   == "create" \in flags
is_append(flags)   == "append" \in flags
is_truncate(flags) == "truncate" \in flags

NoStat == [path |-> <<>>, kind |-> "None", size |-> 0]

new_file_filestat_with_path(path, size) ==
    [path |-> path, kind |-> "RegularFile", size |-> size]

NoFile == [file_stat |-> NoStat, reader |-> FALSE, writer |-> FALSE]

OpenedFile_new(file_stat) ==
    [file_stat |-> file_stat, reader |-> FALSE, writer |-> FALSE]

\* PathBuf::push of a relative entry name
path_push(path, name) ==
    IF ends_with_sep(path) THEN path \o name ELSE path \o <<"/">> \o name

----------------------------------------------------------------------------
(* Free functions of open_dal_filesystem.rs *)

\* the table without its RateLimited row
opendal_error_to_errno_no_busy(kind) ==
    CASE kind = "Unsupported"      -> "EOPNOTSUPP"
      [] kind = "IsADirectory"     -> "EISDIR"
      [] kind = "NotFound"         -> "ENOENT"
      [] kind = "PermissionDenied" -> "EACCES"
      [] kind = "AlreadyExists"    -> "EEXIST"
      [] kind = "NotADirectory"    -> "ENOTDIR"
      [] OTHER                     -> "ENOENT"

opendal_error_to_errno(kind) ==
    CASE kind = "Unsupported"      -> "EOPNOTSUPP"
      [] kind = "IsADirectory"     -> "EISDIR"
      [] kind = "NotFound"         -> "ENOENT"
      [] kind = "PermissionDenied" -> "EACCES"
      [] kind = "AlreadyExists"    -> "EEXIST"
      [] kind = "NotADirectory"    -> "ENOTDIR"
      [] kind = "RateLimited"      -> "EBUSY"
      [] OTHER                     -> "ENOENT"

opendal_filemode_to_filetype(mode) ==
    IF mode = "DIR" THEN "Directory" ELSE "RegularFile"

\* the translation that leaves the size of the fresh FileStat in place
opendal_meta_to_file_stat_no_size(meta, file_stat) ==
    [file_stat EXCEPT !.kind = opendal_filemode_to_filetype(meta.mode)]

opendal_meta_to_file_stat(meta, file_stat) ==
    [file_stat EXCEPT !.size = meta.content_length,
                      !.kind = opendal_filemode_to_filetype(meta.mode)]

----------------------------------------------------------------------------
(* impl PathFileSystem for OpenDalFileSystem, as functions of the store `s`, *)
(* the build `b`, the inputs, the fault plan and the number `n` of backend   *)
(* calls the enclosing operation has made before. Each yields a Result.      *)

Result(ok, errno, calls) ==
    [ok |-> ok, errno |-> errno, calls |-> calls,
     stat |-> NoStat, file |-> NoFile, entries |-> <<>>, ret |-> 0]

Failure(kind, calls) == Result(FALSE, opendal_error_to_errno(kind), calls)

\* stat that re-probes the directory key after any failure of the first lookup
stat_retries_any_error(s, path, plan, n) ==
    LET r1 == Faulty(plan, n + 1, op_stat(s, path))
        c1 == Call("stat", path, r1)
        dir_name == build_dir_path(path)
        r2 == Faulty(plan, n + 2, op_stat(s, dir_name))
        c2 == Call("stat", dir_name, r2)
        file_stat(meta) ==
            opendal_meta_to_file_stat(meta, new_file_filestat_with_path(path, 0))
    IN IF r1.ok
       THEN [Result(TRUE, "OK", <<c1>>) EXCEPT !.stat = file_stat(r1.meta)]
       ELSE IF r2.ok
       THEN [Result(TRUE, "OK", <<c1, c2>>) EXCEPT !.stat = file_stat(r2.meta)]
       ELSE Failure(r2.kind, <<c1, c2>>)

stat(s, path, plan, n) ==
    LET file_name == path
        r1 == Faulty(plan, n + 1, op_stat(s, file_name))
        c1 == Call("stat", file_name, r1)
        dir_name == build_dir_path(path)
        r2 == Faulty(plan, n + 2, op_stat(s, dir_name))
        c2 == Call("stat", dir_name, r2)
        file_stat(meta) ==
            opendal_meta_to_file_stat(meta, new_file_filestat_with_path(path, 0))
    IN IF r1.ok
       THEN [Result(TRUE, "OK", <<c1>>) EXCEPT !.stat = file_stat(r1.meta)]
       ELSE IF r1.kind = "NotFound"
       THEN IF r2.ok
            THEN [Result(TRUE, "OK", <<c1, c2>>) EXCEPT !.stat = file_stat(r2.meta)]
            ELSE Failure(r2.kind, <<c1, c2>>)
       ELSE Failure(r1.kind, <<c1>>)

read_dir(s, path, plan, n) ==
    LET dir_name == build_dir_path(path)
        r == Faulty(plan, n + 1, op_list(s, dir_name))
        c == Call("list", dir_name, r)
        entry_stat(entry) ==
            opendal_meta_to_file_stat(entry.metadata,
                new_file_filestat_with_path(path_push(path, entry.name), 0))
    IN IF r.ok
       THEN [Result(TRUE, "OK", <<c>>) EXCEPT
                !.entries = [i \in 1..Len(r.meta) |-> entry_stat(r.meta[i])]]
       ELSE Failure(r.kind, <<c>>)

\* the two builds of the crate: debug_assert! is compiled in, or compiled out
Builds == {"debug", "release"}

\* debug_assert!(cond): panics in a debug build, compiled out in a release build
debug_assert_fails(b, cond) == b = "debug" /\ ~cond

\* the conditions under which open_file attaches a reader and a writer
wants_reader(flags) == is_read(flags)
\* a writer only for the write intent
wants_writer_only_write(flags) == is_write(flags)

wants_writer(flags) ==
    is_write(flags) \/ is_create(flags) \/ is_append(flags) \/ is_truncate(flags)

open_file(s, b, path, flags, plan, n) ==
    LET st == stat(s, path, plan, n)
        k  == n + Len(st.calls)
        file_name == path
        want_reader == wants_reader(flags)
        want_writer == wants_writer(flags)
        rr == Faulty(plan, k + 1, op_reader_with(file_name))
        cr == IF want_reader THEN <<Call("reader_with", file_name, rr)>> ELSE <<>>
        kw == k + Len(cr)
        rw == Faulty(plan, kw + 1, op_writer_with(file_name))
        cw == IF want_writer THEN <<Call("writer_with", file_name, rw)>> ELSE <<>>
        file == OpenedFile_new(st.stat)
    IN IF ~st.ok THEN st
       ELSE IF debug_assert_fails(b, st.stat.kind = "RegularFile")
       THEN [Result(FALSE, "PANIC", st.calls) EXCEPT !.stat = st.stat]
       ELSE IF want_reader /\ ~rr.ok
       THEN [Failure(rr.kind, st.calls \o cr) EXCEPT !.stat = st.stat]
       ELSE IF want_writer /\ ~rw.ok
       THEN [Failure(rw.kind, st.calls \o cr \o cw) EXCEPT !.stat = st.stat]
       ELSE [Result(TRUE, "OK", st.calls \o cr \o cw) EXCEPT
                !.stat = st.stat,
                !.file = [file EXCEPT !.reader = want_reader,
                                      !.writer = want_writer]]

open_dir(s, b, path, flags, plan, n) ==
    LET st == stat(s, path, plan, n)
    IN IF ~st.ok THEN st
       ELSE IF debug_assert_fails(b, st.stat.kind = "Directory")
       THEN [Result(FALSE, "PANIC", st.calls) EXCEPT !.stat = st.stat]
       ELSE [Result(TRUE, "OK", st.calls) EXCEPT
                !.stat = st.stat, !.file = OpenedFile_new(st.stat)]

\* create_file that never closes its writer: nothing is persisted
create_file_store_unclosed(s, path, plan) == s

\* the store after create_file's writer_with + close
create_file_store(s, path, plan) ==
    LET file_name == path
        r1 == Faulty(plan, 1, op_writer_with(file_name))
        r2 == Faulty(plan, 2, Ok(NoObject))
    IN IF r1.ok /\ r2.ok THEN put_object(s, file_name, 0) ELSE s

create_file(s, b, path, flags, plan) ==
    LET file_name == path
        r1 == Faulty(plan, 1, op_writer_with(file_name))
        c1 == Call("writer_with", file_name, r1)
        r2 == Faulty(plan, 2, Ok(NoObject))
        c2 == Call("close", file_name, r2)
        file == open_file(create_file_store(s, path, plan), b, path, flags, plan, 2)
    IN IF ~r1.ok THEN Failure(r1.kind, <<c1>>)
       ELSE IF ~r2.ok THEN Failure(r2.kind, <<c1, c2>>)
       ELSE [file EXCEPT !.calls = <<c1, c2>> \o file.calls]

create_dir_store(s, path, plan) ==
    LET dir_name == build_dir_path(path)
        r == Faulty(plan, 1, Ok(NoObject))
    IN IF r.ok THEN put_dir(s, dir_name) ELSE s

create_dir(s, path, plan) ==
    LET dir_name == build_dir_path(path)
        r == Faulty(plan, 1, Ok(NoObject))
        c == Call("create_dir", dir_name, r)
        file_stat == stat(create_dir_store(s, path, plan), path, plan, 1)
    IN IF ~r.ok THEN Failure(r.kind, <<c>>)
       ELSE [file_stat EXCEPT !.calls = <<c>> \o file_stat.calls]

\* remove_file that removes the directory key
remove_file_key_dir(path) == build_dir_path(path)

\* the key remove_file / remove_dir hands to Operator::remove
remove_file_key(path) == path
remove_dir_key(path)  == build_dir_path(path)

remove_key(s, key, plan) ==
    LET r == Faulty(plan, 1, Ok(NoObject))
        c == Call("remove", key, r)
    IN IF r.ok THEN Result(TRUE, "OK", <<c>>) ELSE Failure(r.kind, <<c>>)

remove_store(s, key, plan) ==
    IF Faulty(plan, 1, Ok(NoObject)).ok THEN delete_object(s, key) ELSE s

remove_file(s, path, plan) == remove_key(s, remove_file_key(path), plan)
remove_dir(s, path, plan)  == remove_key(s, remove_dir_key(path), plan)

\* remove_dir that removes everything under the directory key
remove_dir_store_recursive(s, path, plan) ==
    IF Faulty(plan, 1, Ok(NoObject)).ok
    THEN [k \in DOMAIN s |->
             IF IsPrefix(build_dir_path(path), k) THEN NoObject ELSE s[k]]
    ELSE s

remove_file_store(s, path, plan) == remove_store(s, remove_file_key(path), plan)
remove_dir_store(s, path, plan)  == remove_store(s, remove_dir_key(path), plan)

----------------------------------------------------------------------------
(* Stream handles: FileReaderImpl, FileWriterImpl *)

\* opendal::Writer::write: the bytes are appended to the sequential stream
writer_write(stream, data) == stream \o data

\* `data.len() as u32` keeps the low 32 bits: the low and the high 16-bit half
\* of them, put together again
HalfWord == 65536

as_u32(n) == (n % HalfWord) + HalfWord * ((n \div HalfWord) % HalfWord)

FileReaderImpl_read(s, key, offset, size, plan) ==
    LET end == offset + size
        r == Faulty(plan, 1, op_read(s, key, offset, end))
        c == Call("read", key, r)
    IN IF r.ok
       THEN [Result(TRUE, "OK", <<c>>) EXCEPT !.ret = r.meta.content_length]
       ELSE Failure(r.kind, <<c>>)

\* a writer that positions the data at the offset
FileWriterImpl_stream_at_offset(stream, offset, data, plan) ==
    IF Faulty(plan, 1, Ok(NoObject)).ok
    THEN SubSeq(stream, 1, IF offset < Len(stream) THEN offset ELSE Len(stream))
            \o data
    ELSE stream

\* the backend stream after FileWriterImpl::write(_offset, data)
FileWriterImpl_stream(stream, offset, data, plan) ==
    IF Faulty(plan, 1, Ok(NoObject)).ok THEN writer_write(stream, data) ELSE stream

FileWriterImpl_write(key, offset, data, plan) ==
    LET r == Faulty(plan, 1, Ok(NoObject))
        c == Call("write", key, r)
    IN IF r.ok
       THEN [Result(TRUE, "OK", <<c>>) EXCEPT !.ret = as_u32(Len(data))]
       ELSE Failure(r.kind, <<c>>)

FileWriterImpl_close(key, plan) ==
    LET r == Faulty(plan, 1, Ok(NoObject))
        c == Call("close", key, r)
    IN IF r.ok THEN Result(TRUE, "OK", <<c>>) ELSE Failure(r.kind, <<c>>)

----------------------------------------------------------------------------
(* State machine *)

Chunks == {<<1>>, <<2>>, <<2, 1>>}

\* the offsets and sizes a caller passes to read and write
Offsets == {0, MaxLen}
Sizes   == {1, MaxLen}

NotHeld == [held |-> FALSE, key |-> <<>>,
            reader |-> FALSE, writer |-> FALSE, stream |-> <<>>]

\* the caller's handle for the OpenedFile an open returned
Held(path, file) ==
    [held |-> TRUE, key |-> path,
     reader |-> file.reader, writer |-> file.writer, stream |-> <<>>]

\* the record of a completed operation: its inputs, whether the file key of
\* its path held an object when it began, and what it returned
Done(op, path, flags, offset, data, res) ==
    [op |-> op, path |-> path, flags |-> flags, offset |-> offset, data |-> data,
     had |-> HasObject(store, path), ok |-> res.ok, errno |-> res.errno, calls |-> res.calls, stat |-> res.stat,
     file |-> res.file, entries |-> res.entries, ret |-> res.ret]

\* no operation is in progress or waiting to be looked at
Idle == [op |-> "idle", path |-> <<>>, flags |-> {}, offset |-> 0, data |-> <<>>,
         had |-> FALSE, ok |-> TRUE, errno |-> "OK", calls |-> <<>>,
         stat |-> NoStat, file |-> NoFile, entries |-> <<>>, ret |-> 0]

\* an operation is called when the one before it has returned
Ready == last.op = "idle"

\* a bucket with no object in it
EmptyStore == [k \in Keys |-> NoObject]

\* the adapter is constructed over an empty bucket: every other content of
\* the bucket is reached by the adapter's own operations
Init ==
    /\ store = EmptyStore
    /\ opened = NotHeld
    /\ last = Idle

Stat(path, plan) ==
    /\ Ready /\ ~opened.held
    /\ last' = Done("stat", path, {}, 0, <<>>, stat(store, path, plan, 0))
    /\ UNCHANGED <<store, opened>>

ReadDir(path, plan) ==
    /\ Ready /\ ~opened.held
    /\ last' = Done("read_dir", path, {}, 0, <<>>, read_dir(store, path, plan, 0))
    /\ UNCHANGED <<store, opened>>

OpenFile(path, flags, plan, b) ==
    LET res == open_file(store, b, path, flags, plan, 0)
    IN /\ Ready /\ ~opened.held
       /\ last' = Done("open_file", path, flags, 0, <<>>, res)
       /\ opened' = IF res.ok THEN Held(path, res.file) ELSE opened
       /\ UNCHANGED store

OpenDir(path, flags, plan, b) ==
    LET res == open_dir(store, b, path, flags, plan, 0)
    IN /\ Ready /\ ~opened.held
       /\ last' = Done("open_dir", path, flags, 0, <<>>, res)
       /\ opened' = IF res.ok THEN Held(path, res.file) ELSE opened
       /\ UNCHANGED store

CreateFile(path, flags, plan, b) ==
    LET res == create_file(store, b, path, flags, plan)
    IN /\ Ready /\ ~opened.held
       /\ last' = Done("create_file", path, flags, 0, <<>>, res)
       /\ store' = create_file_store(store, path, plan)
       /\ opened' = IF res.ok THEN Held(path, res.file) ELSE opened

CreateDir(path, plan) ==
    /\ Ready /\ ~opened.held
    /\ last' = Done("create_dir", path, {}, 0, <<>>, create_dir(store, path, plan))
    /\ store' = create_dir_store(store, path, plan)
    /\ UNCHANGED opened

SetAttr(path) ==
    /\ Ready /\ ~opened.held
    /\ last' = Done("set_attr", path, {}, 0, <<>>, Result(TRUE, "OK", <<>>))
    /\ UNCHANGED <<store, opened>>

RemoveFile(path, plan) ==
    /\ Ready /\ ~opened.held
    /\ last' = Done("remove_file", path, {}, 0, <<>>, remove_file(store, path, plan))
    /\ store' = remove_file_store(store, path, plan)
    /\ UNCHANGED opened

RemoveDir(path, plan) ==
    /\ Ready /\ ~opened.held
    /\ last' = Done("remove_dir", path, {}, 0, <<>>, remove_dir(store, path, plan))
    /\ store' = remove_dir_store(store, path, plan)
    /\ UNCHANGED opened

Read(offset, size, plan) ==
    /\ Ready /\ opened.held /\ opened.reader
    /\ last' = Done("read", opened.key, {}, offset, <<>>,
                    FileReaderImpl_read(store, opened.key, offset, size, plan))
    /\ UNCHANGED <<store, opened>>

Write(offset, data, plan) ==
    /\ Ready /\ opened.held /\ opened.writer
    /\ Len(opened.stream) + Len(data) <= MaxLen
    /\ last' = Done("write", opened.key, {}, offset, data,
                    FileWriterImpl_write(opened.key, offset, data, plan))
    /\ opened' = [opened EXCEPT
                     !.stream = FileWriterImpl_stream(@, offset, data, plan)]
    /\ UNCHANGED store

\* a closed writer takes no more calls: the handle keeps only its reader
Close(plan) ==
    LET res == FileWriterImpl_close(opened.key, plan)
    IN /\ Ready /\ opened.held /\ opened.writer
       /\ last' = Done("close", opened.key, {}, 0, <<>>, res)
       /\ store' = IF res.ok
                   THEN put_object(store, opened.key, Len(opened.stream))
                   ELSE store
       /\ opened' = IF res.ok
                    THEN [opened EXCEPT !.writer = FALSE, !.stream = <<>>]
                    ELSE opened

\* the caller drops its OpenedFile
Release ==
    /\ Ready /\ opened.held
    /\ opened' = NotHeld
    /\ last' = Done("release", opened.key, {}, 0, <<>>, Result(TRUE, "OK", <<>>))
    /\ UNCHANGED store

\* the operation returns: the caller has its result
Return ==
    /\ ~Ready
    /\ last' = Idle
    /\ UNCHANGED <<store, opened>>

\* every operation against a backend that answers from its contents
Next ==
    \/ \E path \in Paths : Stat(path, NoFault)
    \/ \E path \in Paths : ReadDir(path, NoFault)
    \/ \E path \in Paths, flags \in SUBSET Intents, b \in Builds :
          OpenFile(path, flags, NoFault, b)
    \/ \E path \in Paths, flags \in SUBSET Intents, b \in Builds :
          OpenDir(path, flags, NoFault, b)
    \/ \E path \in Paths, flags \in SUBSET Intents, b \in Builds :
          CreateFile(path, flags, NoFault, b)
    \/ \E path \in Paths : CreateDir(path, NoFault)
    \/ \E path \in Paths : SetAttr(path)
    \/ \E path \in Paths : RemoveFile(path, NoFault)
    \/ \E path \in Paths : RemoveDir(path, NoFault)
    \/ \E offset \in Offsets, size \in Sizes : Read(offset, size, NoFault)
    \/ \E offset \in Offsets, data \in Chunks : Write(offset, data, NoFault)
    \/ Close(NoFault)
    \/ Release
    \/ Return

Spec == Init /\ [][Next]_vars

\* the intents an open is given when backend calls may fail
FaultFlags == SUBSET {"read", "write"}

\* every operation, with one backend call of it failing as the plan says
NextFault ==
    \/ \E path \in Paths, plan \in Plans(2) : Stat(path, plan)
    \/ \E path \in Paths, plan \in Plans(1) : ReadDir(path, plan)
    \/ \E path \in Paths, flags \in FaultFlags, plan \in Plans(4), b \in Builds :
          OpenFile(path, flags, plan, b)
    \/ \E path \in Paths, flags \in FaultFlags, plan \in Plans(2), b \in Builds :
          OpenDir(path, flags, plan, b)
    \/ \E path \in Paths, flags \in FaultFlags, plan \in Plans(6), b \in Builds :
          CreateFile(path, flags, plan, b)
    \/ \E path \in Paths, plan \in Plans(3) : CreateDir(path, plan)
    \/ \E path \in Paths : SetAttr(path)
    \/ \E path \in Paths, plan \in Plans(1) : RemoveFile(path, plan)
    \/ \E path \in Paths, plan \in Plans(1) : RemoveDir(path, plan)
    \/ \E offset \in Offsets, size \in Sizes, plan \in Plans(1) :
          Read(offset, size, plan)
    \/ \E offset \in Offsets, data \in Chunks, plan \in Plans(1) :
          Write(offset, data, plan)
    \/ \E plan \in Plans(1) : Close(plan)
    \/ Release
    \/ Return

SpecFault == Init /\ [][NextFault]_vars

----------------------------------------------------------------------------
(* Properties *)

\* the directory key of a path, written out: the path, with a separator put
\* after it unless it ends in one
DirKey(path) ==
    IF path[Len(path)] = "/" THEN path ELSE path \o <<"/">>

\* some object lies under the directory key of `path`
EntryUnder(path) ==
    \E k \in DOMAIN store :
        /\ Len(k) >= Len(DirKey(path))
        /\ SubSeq(k, 1, Len(DirKey(path))) = DirKey(path)
        /\ store[k].mode # "NONE"

\* the error table of the specification (section 4.3)
TableErrno(kind) ==
    CASE kind = "Unsupported"      -> "EOPNOTSUPP"
      [] kind = "IsADirectory"     -> "EISDIR"
      [] kind = "NotFound"         -> "ENOENT"
      [] kind = "PermissionDenied" -> "EACCES"
      [] kind = "AlreadyExists"    -> "EEXIST"
      [] kind = "NotADirectory"    -> "ENOTDIR"
      [] kind = "RateLimited"      -> "EBUSY"
      [] OTHER                     -> "ENOENT"

\* the FileStat kind the backend's answer `c` translates to
KindOf(c) == IF c.meta.mode = "DIR" THEN "Directory" ELSE "RegularFile"

\* C1: stat(P) looks up the file key P first. If that lookup fails with a kind
\* other than NotFound, stat fails with the mapped error of that lookup and
\* makes no second call. If it fails with NotFound, stat looks up the
\* directory key exactly once and returns the translated stat of that lookup,
\* or its mapped error; there is no further backend call.
C1_StatProbes ==
    last.op = "stat" =>
        LET c == last.calls
        IN /\ Len(c) \in {1, 2}
           /\ c[1].name = "stat" /\ c[1].key = last.path
           /\ (c[1].ok => Len(c) = 1 /\ last.ok)
           /\ (~c[1].ok /\ c[1].kind # "NotFound" =>
                  /\ Len(c) = 1
                  /\ ~last.ok /\ last.errno = TableErrno(c[1].kind))
           /\ (~c[1].ok /\ c[1].kind = "NotFound" =>
                  /\ Len(c) = 2
                  /\ c[2].name = "stat" /\ c[2].key = DirKey(last.path)
                  /\ (c[2].ok =>
                         /\ last.ok
                         /\ last.stat.path = last.path
                         /\ last.stat.kind = KindOf(c[2])
                         /\ last.stat.size = c[2].meta.content_length)
                  /\ (~c[2].ok =>
                         ~last.ok /\ last.errno = TableErrno(c[2].kind)))

\* a stat whose first lookup is NotFound and whose directory lookup fails
\* with another kind, which is the error stat returns
C1_Witness ==
    /\ last.op = "stat" /\ Len(last.calls) = 2
    /\ last.calls[1].kind = "NotFound"
    /\ last.calls[2].kind = "PermissionDenied"
    /\ last.errno = "EACCES"

\* C2 as stated: for every path P whose file key exists in the backend,
\* stat(P) returns kind RegularFile and the content length of that key.
C2_AsStated ==
    (last.op = "stat" /\ last.had) =>
        /\ last.ok
        /\ last.stat.kind = "RegularFile"
        /\ last.stat.size = store[last.path].content_length

\* C2, amended: for every path P whose file key exists in the backend, stat(P)
\* succeeds after the one lookup of that key, with the content length the
\* backend reports for it, and with kind RegularFile unless the backend
\* reports the key's entry mode as DIR (the key of a directory marker, which
\* ends in the separator): then the kind is Directory.
C2_StatOfExistingKey ==
    (last.op = "stat" /\ last.had) =>
        /\ last.ok
        /\ Len(last.calls) = 1
        /\ last.stat.size = store[last.path].content_length
        /\ last.stat.kind = IF store[last.path].mode = "DIR"
                            THEN "Directory" ELSE "RegularFile"

\* a stat of an existing file of two bytes
C2_Witness ==
    /\ last.op = "stat" /\ last.had
    /\ store[last.path].mode = "FILE"
    /\ last.stat.kind = "RegularFile" /\ last.stat.size = 2

\* C3: for every path P with no file key but at least one entry under its
\* directory key, stat(P) succeeds with kind Directory (the backend answering
\* each lookup from its contents).
C3_StatOfDirectory ==
    (last.op = "stat" /\ ~last.had /\ EntryUnder(last.path)) =>
        last.ok /\ last.stat.kind = "Directory"

\* a stat of /a that found no object /a, probed /a/ and found the child /a/b
C3_Witness ==
    /\ last.op = "stat" /\ last.path = PathA /\ ~last.had
    /\ store[PathASep].mode = "NONE" /\ store[PathAB].mode = "FILE"
    /\ Len(last.calls) = 2
    /\ last.ok /\ last.stat.kind = "Directory"

\* C4: every OpenedFile a successful open_file(P, flags) returns has its reader
\* present iff flags has the read intent, and its writer present iff flags has
\* one of the write, create, append and truncate intents.
C4_HandleMatchesFlags ==
    (last.op = "open_file" /\ last.ok) =>
        /\ last.file.reader <=> ("read" \in last.flags)
        /\ last.file.writer <=>
              (last.flags \cap {"write", "create", "append", "truncate"} # {})
        /\ opened.held
        /\ opened.reader = last.file.reader /\ opened.writer = last.file.writer

\* a successful open for truncate alone: a writer and no reader
C4_Witness ==
    /\ last.op = "open_file" /\ last.ok /\ last.flags = {"truncate"}
    /\ last.file.writer /\ ~last.file.reader

\* C5: create_file(P, flags) on a path with no prior object opens a writer on
\* P and closes it before any other backend call; the open_file it then
\* delegates to succeeds; and when create_file has returned successfully the
\* backend holds a zero-length object at P, a stat(P) made next reports size
\* 0, and the handle matches flags.
C5_CreateThenReopen ==
    (last.op = "create_file" /\ ~last.had) =>
        LET c == last.calls
        IN /\ Len(c) >= 1
           /\ c[1].name = "writer_with" /\ c[1].key = last.path
           /\ (c[1].ok =>
                  Len(c) >= 2 /\ c[2].name = "close" /\ c[2].key = last.path)
           /\ (Len(c) > 2 => last.ok)
           /\ (last.ok =>
                  /\ Len(c) > 2
                  /\ store[last.path] = [mode |-> "FILE", content_length |-> 0]
                  /\ stat(store, last.path, NoFault, 0).ok
                  /\ stat(store, last.path, NoFault, 0).stat.size = 0
                  /\ last.file.file_stat.kind = "RegularFile"
                  /\ last.file.file_stat.size = 0
                  /\ last.file.reader <=> ("read" \in last.flags)
                  /\ last.file.writer <=>
                        (last.flags \cap {"write", "create", "append", "truncate"}
                            # {}))

\* a successful create_file of /a/b, which did not exist, for read and create
C5_Witness ==
    /\ last.op = "create_file" /\ ~last.had /\ last.ok
    /\ last.path = PathAB /\ last.flags = {"read", "create"}
    /\ store[PathAB].mode = "FILE"
    /\ opened.held /\ opened.reader /\ opened.writer

\* C6 as stated: after remove_file(P) has succeeded on a path whose file key
\* existed, the stat(P) made next fails with NotFound (ENOENT).
C6_AsStated ==
    (last.op = "remove_file" /\ last.ok /\ last.had) =>
        LET next_stat == stat(store, last.path, NoFault, 0)
        IN ~next_stat.ok /\ next_stat.errno = "ENOENT"

\* C6, amended: after remove_file(P) has succeeded on a path whose file key
\* existed, the object at P is gone, and the stat(P) made next fails with
\* NotFound (ENOENT) unless an entry remains under the directory key of P:
\* then it succeeds with kind Directory.
C6_StatAfterRemoveFile ==
    (last.op = "remove_file" /\ last.ok /\ last.had) =>
        LET next_stat == stat(store, last.path, NoFault, 0)
        IN /\ store[last.path].mode = "NONE"
           /\ IF EntryUnder(last.path)
              THEN next_stat.ok /\ next_stat.stat.kind = "Directory"
              ELSE ~next_stat.ok /\ next_stat.errno = "ENOENT"

\* remove_file has removed the file /a/b, nothing is left under /a/b/, and
\* the stat made next fails with ENOENT
C6_Witness ==
    /\ last.op = "remove_file" /\ last.ok /\ last.had /\ last.path = PathAB
    /\ ~EntryUnder(PathAB)
    /\ stat(store, PathAB, NoFault, 0).errno = "ENOENT"

\* C7: whenever an operation of the adapter, of a reader or of a writer
\* returns the failure of a backend call, a RateLimited failure is returned
\* as EBUSY, and ENOENT is returned only for NotFound and for the kinds that
\* are not in the mapping table.
C7_RateLimitedIsBusy ==
    (~last.ok /\ last.errno # "PANIC") =>
        LET c == last.calls[Len(last.calls)]
        IN /\ ~c.ok
           /\ (c.kind = "RateLimited" => last.errno = "EBUSY")
           /\ (last.errno = "ENOENT" =>
                  c.kind = "NotFound" \/
                  c.kind \notin {"Unsupported", "IsADirectory", "NotFound",
                                 "PermissionDenied", "AlreadyExists",
                                 "NotADirectory", "RateLimited"})

\* a write whose backend call was rate limited
C7_Witness ==
    /\ last.op = "write" /\ ~last.ok
    /\ last.calls[1].kind = "RateLimited" /\ last.errno = "EBUSY"

\* C8: remove_dir(P) makes one backend call, the removal of the directory key
\* of P, and neither lists nor looks anything up; it succeeds iff that removal
\* succeeds, also when entries remain under the directory key; and no other
\* key of the backend changes.
C8_RemoveDirSingleKey ==
    [][last'.op = "remove_dir" =>
          /\ Len(last'.calls) = 1
          /\ last'.calls[1].name = "remove"
          /\ last'.calls[1].key = DirKey(last'.path)
          /\ last'.ok = last'.calls[1].ok
          /\ \A k \in DOMAIN store :
                k # DirKey(last'.path) => store'[k] = store[k]
          /\ (last'.ok /\ DirKey(last'.path) \in DOMAIN store =>
                 store'[DirKey(last'.path)].mode = "NONE")]_vars

\* remove_dir(/a) has succeeded and the child /a/b is still there
C8_Witness ==
    /\ last.op = "remove_dir" /\ last.ok /\ last.path = PathA
    /\ store[PathASep].mode = "NONE" /\ store[PathAB].mode = "FILE"

\* C9: every successful Writer.write(offset, data) hands data to the backend
\* stream after the bytes of the calls before it, whatever the offset, and
\* returns the length of data: the stream is the data of the calls, in call
\* order.
C9_WriteAppends ==
    [][(last'.op = "write" /\ last'.ok) =>
          /\ opened'.stream = opened.stream \o last'.data
          /\ last'.ret = Len(last'.data)]_vars

\* a second write, at offset 0, whose data went after the first write's
C9_Witness ==
    /\ last.op = "write" /\ last.ok /\ last.offset = 0
    /\ last.data = <<1>> /\ opened.stream = <<2, 1>>

\* C10 as stated: open_file returns no OpenedFile for a path that stat resolves
\* to Directory, open_dir returns none for a path that stat resolves to
\* RegularFile, and open_dir's handle has neither reader nor writer.
C10_AsStated ==
    /\ (last.op = "open_file" /\ last.stat.kind = "Directory") =>
           ~last.ok /\ last.file = NoFile
    /\ (last.op = "open_dir" /\ last.stat.kind = "RegularFile") =>
           ~last.ok /\ last.file = NoFile
    /\ (last.op = "open_dir" /\ last.ok) =>
           ~last.file.reader /\ ~last.file.writer

====
